---- MODULE Spec2Model ----
(***************************************************************************)
(* Model of the probe scheduler of the IPTV monitor (App.runCheck and its  *)
(* helper checkSource) over the channel catalog produced by the            *)
(* aggregator.  React state is modelled by the variables of the same name; *)
(* a state setter is an assignment, a functional updater is applied to the *)
(* latest value.  Every asynchronous invocation of runCheck is a record of *)
(* `runs`: its task list, its loop index and the probes of the batch it is *)
(* waiting for.                                                            *)
(***************************************************************************)
EXTENDS Integers, Sequences, FiniteSets, TLC

VARIABLES channels, isChecking, checkProgress, totalToCheck, checkedCount,
          runs, cycles,
          loadingData, remote, promises,
          cleanName, normalizedKey,
          batchPrev, batchOutcomes, batchResults

\* loadPresets: the loading flag, what each preset's server answers and the
\* promise of each preset
loadVars == <<loadingData, remote, promises>>

\* addChannelToMap: a display name and its canonical key
normVars == <<cleanName, normalizedKey>>

\* one batch of runCheck: the catalog before its write-back, how each probe
\* of the batch ended and the objects checkSource returned
batchVars == <<batchPrev, batchOutcomes, batchResults>>

vars == <<channels, isChecking, checkProgress, totalToCheck, checkedCount,
          runs, cycles, loadVars, normVars, batchVars>>

----------------------------------------------------------------------------
(* Bounds of the model *)

\* number of sources of the catalog, over all its channels
MaxTasks == 2
\* number of check cycles that are accepted in one behaviour
MaxCycles == 2
\* batch width; the program sets 12 (constants.ts), the model is checked
\* with narrower batches so that task lists longer than one batch stay small
BATCH_SIZE == 1

(* Program constants *)

TIMEOUT_MS == 6000

\* `null` of `latency: number | null`
NULL == -1
\* `undefined` of `resolution?: string`
UNDEFINED == "undefined"

\* latencies a probe can measure: Math.round(end - start) of a fetch that
\* resolved before the abort timer fired
Latencies == {0, TIMEOUT_MS}
\* heights of the RESOLUTION= markers found in a first body chunk
HeightSets == {{}, {480, 1080}}
\* the values of the tab that filters the channel list
Tabs == {"All", "China", "International"}

----------------------------------------------------------------------------
(* Types (types.ts) *)

Status == {"idle", "checking", "online", "offline", "error"}

\* a Source as addChannelToMap creates it
NewSource(id, url) ==
  [id |-> id, url |-> url, status |-> "idle", latency |-> NULL,
   resolution |-> UNDEFINED]

SourceId(c, k) == "s" \o ToString(c) \o ToString(k)
SourceUrl(c, k) == "http://" \o ToString(c) \o "/" \o ToString(k)
ChannelNames == <<"CCTV-1", "ESPN", "CCTV-5", "BBC">>
ChannelCategories == <<"China", "International", "China", "International">>

\* mutant: the channel is created with its empty source list and gets no source
NewChannel_NoSources(c, n) ==
  [id |-> "c" \o ToString(c),
   name |-> ChannelNames[((c - 1) % 4) + 1],
   group |-> "Other",
   category |-> ChannelCategories[((c - 1) % 4) + 1],
   sources |-> <<>>,
   bestSource |-> <<>>]

\* a Channel as parseAndAggregate returns it: at least one idle source, no
\* bestSource (an optional field is a sequence of length 0 or 1)
NewChannel(c, n) ==
  [id |-> "c" \o ToString(c),
   name |-> ChannelNames[((c - 1) % 4) + 1],
   group |-> "Other",
   category |-> ChannelCategories[((c - 1) % 4) + 1],
   sources |-> [k \in 1..n |-> NewSource(SourceId(c, k), SourceUrl(c, k))],
   bestSource |-> <<>>]

\* the catalogs the aggregation can return, by number of sources per channel
RECURSIVE Sum(_)
Sum(q) == IF q = <<>> THEN 0 ELSE Head(q) + Sum(Tail(q))

CatalogShapes ==
  {q \in UNION {[1..n -> 1..MaxTasks] : n \in 1..MaxTasks} : Sum(q) <= MaxTasks}

Catalog(shape) == [c \in 1..Len(shape) |-> NewChannel(c, shape[c])]

----------------------------------------------------------------------------
(* Sequence helpers *)

\* Array.prototype.findIndex: first index satisfying the test, 0 for -1
ChannelIndex(chs, id) ==
  IF \E k \in 1..Len(chs) : chs[k].id = id
  THEN CHOOSE k \in 1..Len(chs) :
         chs[k].id = id /\ \A j \in 1..(k - 1) : chs[j].id # id
  ELSE 0

SourceIndex(srcs, id) ==
  IF \E k \in 1..Len(srcs) : srcs[k].id = id
  THEN CHOOSE k \in 1..Len(srcs) :
         srcs[k].id = id /\ \A j \in 1..(k - 1) : srcs[j].id # id
  ELSE 0

\* Array.prototype.slice(i, i + BATCH_SIZE), i counted from 0
Slice(seq, i, width) ==
  [k \in 1..(IF Len(seq) - i < width THEN (IF Len(seq) - i < 0 THEN 0 ELSE Len(seq) - i) ELSE width)
     |-> seq[i + k]]

----------------------------------------------------------------------------
(* runCheck: the task list and the initial marking *)

\* mutant: the guard without the in-progress flag
RunCheckRejects_NoFlag(targetChannels) ==
  Len(targetChannels) = 0

\* the guard of runCheck
RunCheckRejects(targetChannels) ==
  isChecking \/ Len(targetChannels) = 0

RECURSIVE FlattenTasks(_)
\* targetChannels.forEach(ch => ch.sources.forEach(src => tasks.push(...)))
FlattenTasks(targetChannels) ==
  IF targetChannels = <<>> THEN <<>>
  ELSE LET ch == Head(targetChannels)
       IN  [k \in 1..Len(ch.sources) |->
              [channelId |-> ch.id, sourceId |-> ch.sources[k].id,
               url |-> ch.sources[k].url]]
           \o FlattenTasks(Tail(targetChannels))

\* mutant: the marking sets the status and keeps the latency
MarkTask_KeepLatency(next, task) ==
  LET chIndex == ChannelIndex(next, task.channelId)
  IN  IF chIndex = 0 THEN next
      ELSE LET srcIndex == SourceIndex(next[chIndex].sources, task.sourceId)
           IN  IF srcIndex = 0 THEN next
               ELSE [next EXCEPT ![chIndex].sources[srcIndex].status = "checking"]

\* the body of tasks.forEach of UPDATE 1 for one task
MarkTask(next, task) ==
  LET chIndex == ChannelIndex(next, task.channelId)
  IN  IF chIndex = 0 THEN next
      ELSE LET ch == next[chIndex]
               srcIndex == SourceIndex(ch.sources, task.sourceId)
           IN  IF srcIndex = 0 THEN next
               ELSE [next EXCEPT ![chIndex].sources[srcIndex].status = "checking",
                                 ![chIndex].sources[srcIndex].latency = NULL]

\* mutant: the marking sets every source of the catalog to checking
MarkChecking_All(prev, tasks) ==
  [c \in 1..Len(prev) |->
     [prev[c] EXCEPT !.sources =
        [n \in 1..Len(prev[c].sources) |->
           [prev[c].sources[n] EXCEPT !.status = "checking", !.latency = NULL]]]]

RECURSIVE MarkChecking(_, _)
\* the updater of UPDATE 1: setChannels(prev => ...)
MarkChecking(prev, tasks) ==
  IF tasks = <<>> THEN prev
  ELSE MarkChecking(MarkTask(prev, Head(tasks)), Tail(tasks))

----------------------------------------------------------------------------
(* checkSource *)

\* a probe whose fetch has been dispatched
NewProbe(task) ==
  [task |-> task, pc |-> "fetch", response |-> "none", latency |-> NULL,
   hangs |-> FALSE, sniffFailed |-> FALSE, result |-> <<>>]

Max(S) == CHOOSE x \in S : \A y \in S : y <= x

\* mutant: the label is computed from the smallest height
ResolutionLabel_Min(heights) ==
  IF heights = {} THEN UNDEFINED
  ELSE LET minHeight == CHOOSE x \in heights : \A y \in heights : x <= y
       IN  IF minHeight >= 1080 THEN "1080P"
           ELSE IF minHeight >= 720 THEN "720P"
           ELSE ToString(minHeight) \o "P"

\* the label of the resolution sniff for the heights matched in the chunk
ResolutionLabel(heights) ==
  IF heights = {} THEN UNDEFINED
  ELSE LET maxHeight == Max(heights)
       IN  IF maxHeight >= 1080 THEN "1080P"
           ELSE IF maxHeight >= 720 THEN "720P"
           ELSE ToString(maxHeight) \o "P"

\* mutant: a failure of the body sniff reaches the outer catch
ProbeResult_SniffThrows(task, response, latency, sniff, heights) ==
  IF response = "failed" \/ sniff = "error"
  THEN [channelId |-> task.channelId, sourceId |-> task.sourceId, url |-> task.url,
        status |-> "error", latency |-> NULL, resolution |-> UNDEFINED]
  ELSE [channelId |-> task.channelId, sourceId |-> task.sourceId, url |-> task.url,
        status |-> IF response = "ok" THEN "online" ELSE "offline",
        latency |-> IF response = "ok" THEN latency ELSE NULL,
        resolution |-> IF response = "ok" /\ sniff = "chunk"
                       THEN ResolutionLabel(heights) ELSE UNDEFINED]

\* mutant: the catch branch reports the elapsed deadline as latency
ProbeResult_ErrorLatency(task, response, latency, sniff, heights) ==
  IF response = "failed"
  THEN [channelId |-> task.channelId, sourceId |-> task.sourceId, url |-> task.url,
        status |-> "error", latency |-> TIMEOUT_MS, resolution |-> UNDEFINED]
  ELSE [channelId |-> task.channelId, sourceId |-> task.sourceId, url |-> task.url,
        status |-> IF response = "ok" THEN "online" ELSE "offline",
        latency |-> IF response = "ok" THEN latency ELSE NULL,
        resolution |-> IF response = "ok" /\ sniff = "chunk"
                       THEN ResolutionLabel(heights) ELSE UNDEFINED]

\* the object checkSource returns
\*   response: "ok" | "notok" (response.ok false) | "failed" (fetch rejected:
\*             abort at the deadline, network or CORS error)
\*   sniff: how the body sniff of an ok response ended: "nobody"
\*          (response.body null), "empty" (no value), "chunk", "error"
\*          (reader.read() rejected, swallowed by the inner catch)
ProbeResult(task, response, latency, sniff, heights) ==
  IF response = "failed"
  THEN [channelId |-> task.channelId, sourceId |-> task.sourceId, url |-> task.url,
        status |-> "error", latency |-> NULL, resolution |-> UNDEFINED]
  ELSE [channelId |-> task.channelId, sourceId |-> task.sourceId, url |-> task.url,
        status |-> IF response = "ok" THEN "online" ELSE "offline",
        latency |-> IF response = "ok" THEN latency ELSE NULL,
        resolution |-> IF response = "ok" /\ sniff = "chunk"
                       THEN ResolutionLabel(heights) ELSE UNDEFINED]

----------------------------------------------------------------------------
(* runCheck: write-back of a batch *)

\* mutant: the score of an online source ignores its latency
getScore_IgnoreLatency(s) ==
  IF s.status = "online" THEN 100000
  ELSE IF s.status = "error" THEN 50000
  ELSE IF s.status = "checking" THEN 100
  ELSE 0

\* getScore of the sort comparator
getScore(s) ==
  IF s.status = "online" THEN 100000 - (IF s.latency = NULL THEN 0 ELSE s.latency)
  ELSE IF s.status = "error" THEN 50000
  ELSE IF s.status = "checking" THEN 100
  ELSE 0

\* the comparator (a, b) => getScore(b) - getScore(a)
Compare(a, b) == getScore(b) - getScore(a)

\* insert s behind every element that does not compare after it
InsertSorted(sorted, s) ==
  LET pos == Cardinality({k \in 1..Len(sorted) : Compare(sorted[k], s) <= 0})
  IN  SubSeq(sorted, 1, pos) \o <<s>> \o SubSeq(sorted, pos + 1, Len(sorted))

RECURSIVE SortFrom(_, _)
SortFrom(sorted, rest) ==
  IF rest = <<>> THEN sorted
  ELSE SortFrom(InsertSorted(sorted, Head(rest)), Tail(rest))

\* newSources.sort(comparator): Array.prototype.sort is stable
SortSources(newSources) == SortFrom(<<>>, newSources)

\* mutant: the write-back keeps only the source it updated
ApplyResult_OnlyUpdated(next, res) ==
  LET chIndex == ChannelIndex(next, res.channelId)
  IN  IF chIndex = 0 THEN next
      ELSE LET ch == next[chIndex]
               srcIndex == SourceIndex(ch.sources, res.sourceId)
           IN  IF srcIndex = 0 THEN next
               ELSE LET updated == [ch.sources EXCEPT
                                      ![srcIndex].status = res.status,
                                      ![srcIndex].latency = res.latency,
                                      ![srcIndex].resolution = res.resolution]
                        newSources == <<updated[srcIndex]>>
                    IN  [next EXCEPT ![chIndex].sources = newSources,
                                     ![chIndex].bestSource = <<newSources[1]>>]

\* the body of results.forEach for one result
ApplyResult(next, res) ==
  LET chIndex == ChannelIndex(next, res.channelId)
  IN  IF chIndex = 0 THEN next
      ELSE LET ch == next[chIndex]
               srcIndex == SourceIndex(ch.sources, res.sourceId)
           IN  IF srcIndex = 0 THEN next
               ELSE LET updated == [ch.sources EXCEPT
                                      ![srcIndex].status = res.status,
                                      ![srcIndex].latency = res.latency,
                                      ![srcIndex].resolution = res.resolution]
                        newSources == SortSources(updated)
                    IN  [next EXCEPT ![chIndex].sources = newSources,
                                     ![chIndex].bestSource = <<newSources[1]>>]

RECURSIVE ApplyResults(_, _)
\* the updater of the batch write-back: setChannels(prev => ...)
ApplyResults(prev, results) ==
  IF results = <<>> THEN prev
  ELSE ApplyResults(ApplyResult(prev, Head(results)), Tail(results))

----------------------------------------------------------------------------
(* State machine *)

\* the progress value ((i + results.length) / tasks.length) * 100 is kept as
\* the exact fraction num/den of 100
Progress(num, den) == [num |-> num, den |-> den]

\* state after loadPresets has stored the aggregated catalog
Init ==
  /\ channels \in {Catalog(shape) : shape \in CatalogShapes}
  /\ isChecking = FALSE
  /\ checkProgress = Progress(0, 1)
  /\ totalToCheck = 0
  /\ checkedCount = 0
  /\ runs = <<>>
  /\ cycles = 0
  /\ loadingData = FALSE
  /\ remote = <<>>
  /\ promises = <<>>
  /\ cleanName = <<>>
  /\ normalizedKey = <<>>
  /\ batchPrev = <<>>
  /\ batchOutcomes = <<>>
  /\ batchResults = <<>>

\* mutant: the slice runs to the end of the task list
Batch_ToEnd(tasks, i) == Slice(tasks, i, Len(tasks))

\* const batch = tasks.slice(i, i + BATCH_SIZE)
Batch(tasks, i) == Slice(tasks, i, BATCH_SIZE)

\* batch.map(checkSource): every probe of the batch runs up to its fetch
Dispatch(batch) == [p \in 1..Len(batch) |-> NewProbe(batch[p])]

\* runCheck(targetChannels) up to its first await; a rejected request
\* returns without any effect
runCheck(targetChannels) ==
  IF RunCheckRejects(targetChannels)
  THEN UNCHANGED vars
  ELSE LET tasks == FlattenTasks(targetChannels)
       IN  /\ cycles < MaxCycles
           /\ cycles' = cycles + 1
           /\ checkedCount' = 0
           /\ totalToCheck' = Len(tasks)
           /\ channels' = MarkChecking(channels, tasks)
           /\ UNCHANGED checkProgress
           /\ IF Len(tasks) > 0
              THEN /\ isChecking' = TRUE
                   /\ runs' = Append(runs,
                        [targets |-> [k \in 1..Len(targetChannels) |-> targetChannels[k].id],
                         tasks |-> tasks, i |-> 0,
                         probes |-> Dispatch(Batch(tasks, 0))])
              ELSE /\ isChecking' = FALSE
                   /\ UNCHANGED runs

RECURSIVE FilterFrom(_, _, _)
FilterFrom(chs, k, tab) ==
  IF k > Len(chs) THEN <<>>
  ELSE (IF tab = "All" \/ chs[k].category = tab THEN <<chs[k]>> ELSE <<>>)
       \o FilterFrom(chs, k + 1, tab)

\* filteredChannels for an empty filter text and the given tab
filteredChannels(tab) == FilterFrom(channels, 1, tab)

handleCheckAll ==
  \E tab \in Tabs : runCheck(filteredChannels(tab))

handleCheckChannel ==
  \E k \in 1..Len(channels) : runCheck(<<channels[k]>>)

\* the probe after its fetch has settled: rejected (abort at the deadline,
\* network, CORS), a response that is not ok, an ok response without body,
\* an ok response whose body will deliver, and one whose body never delivers
\* a chunk (its measured latency is never read again and is left out)
FetchOutcomes(probe) ==
  LET done(response, latency, sniff) ==
        [probe EXCEPT !.pc = "done", !.response = response, !.latency = latency,
                      !.result = <<ProbeResult(probe.task, response, latency, sniff, {})>>]
  IN  {done("failed", NULL, "none"), done("notok", NULL, "none")}
      \cup {done("ok", latency, "nobody") : latency \in Latencies}
      \cup {[probe EXCEPT !.pc = "read", !.response = "ok", !.latency = latency] :
              latency \in Latencies}
      \cup {[probe EXCEPT !.pc = "read", !.response = "ok", !.hangs = TRUE]}

\* the probe after reader.read() has settled
ReadOutcomes(probe) ==
  LET done(sniff, heights) ==
        [probe EXCEPT !.pc = "done", !.sniffFailed = (sniff = "error"),
                      !.result = <<ProbeResult(probe.task, probe.response,
                                               probe.latency, sniff, heights)>>]
  IN  {done("error", {}), done("empty", {})}
      \cup {done("chunk", heights) : heights \in HeightSets}

\* the fetch of probe p of run r settles
FetchResolve(r, p) ==
  /\ runs[r].probes[p].pc = "fetch"
  /\ \E probe \in FetchOutcomes(runs[r].probes[p]) :
       runs' = [runs EXCEPT ![r].probes[p] = probe]
  /\ UNCHANGED <<channels, isChecking, checkProgress, totalToCheck,
                 checkedCount, cycles>>

\* reader.read() of probe p of run r settles; the abort timer was cleared
\* before the read, so a body that never delivers leaves the probe pending
ReadResolve(r, p) ==
  /\ runs[r].probes[p].pc = "read"
  /\ ~runs[r].probes[p].hangs
  /\ \E probe \in ReadOutcomes(runs[r].probes[p]) :
       runs' = [runs EXCEPT ![r].probes[p] = probe]
  /\ UNCHANGED <<channels, isChecking, checkProgress, totalToCheck,
                 checkedCount, cycles>>

RemoveAt(seq, r) == SubSeq(seq, 1, r - 1) \o SubSeq(seq, r + 1, Len(seq))

\* mutant: the next batch is dispatched before the write-back of this one
BatchDone_WriteBackLater(r) ==
  LET run == runs[r]
      results == [p \in 1..Len(run.probes) |-> run.probes[p].result[1]]
      i == run.i + BATCH_SIZE
  IN  /\ \A p \in 1..Len(run.probes) : run.probes[p].pc = "done"
      /\ channels' = IF i < Len(run.tasks) THEN channels
                     ELSE ApplyResults(channels, results)
      /\ checkedCount' = checkedCount + Len(results)
      /\ checkProgress' = Progress(run.i + Len(results), Len(run.tasks))
      /\ IF i < Len(run.tasks)
         THEN /\ runs' = [runs EXCEPT ![r].i = i,
                                      ![r].probes = Dispatch(Batch(run.tasks, i))]
              /\ UNCHANGED isChecking
         ELSE /\ runs' = RemoveAt(runs, r)
              /\ isChecking' = FALSE
      /\ UNCHANGED <<totalToCheck, cycles>>

\* mutant: the counters are set in a later step than the write-back
BatchDone_CountersLater(r) ==
  LET run == runs[r]
      results == [p \in 1..Len(run.probes) |-> run.probes[p].result[1]]
      i == run.i + BATCH_SIZE
  IN  /\ \A p \in 1..Len(run.probes) : run.probes[p].pc = "done"
      /\ channels' = ApplyResults(channels, results)
      /\ UNCHANGED <<checkedCount, checkProgress>>
      /\ IF i < Len(run.tasks)
         THEN /\ runs' = [runs EXCEPT ![r].i = i,
                                      ![r].probes = Dispatch(Batch(run.tasks, i))]
              /\ UNCHANGED isChecking
         ELSE /\ runs' = RemoveAt(runs, r)
              /\ isChecking' = FALSE
      /\ UNCHANGED <<totalToCheck, cycles>>

\* Promise.all of the batch of run r has resolved: write-back, progress and
\* the next iteration of the loop, or the end of the cycle
BatchDone(r) ==
  LET run == runs[r]
      results == [p \in 1..Len(run.probes) |-> run.probes[p].result[1]]
      i == run.i + BATCH_SIZE
  IN  /\ \A p \in 1..Len(run.probes) : run.probes[p].pc = "done"
      /\ channels' = ApplyResults(channels, results)
      /\ checkedCount' = checkedCount + Len(results)
      /\ checkProgress' = Progress(run.i + Len(results), Len(run.tasks))
      /\ IF i < Len(run.tasks)
         THEN /\ runs' = [runs EXCEPT ![r].i = i,
                                      ![r].probes = Dispatch(Batch(run.tasks, i))]
              /\ UNCHANGED isChecking
         ELSE /\ runs' = RemoveAt(runs, r)
              /\ isChecking' = FALSE
      /\ UNCHANGED <<totalToCheck, cycles>>

Next ==
  \/ handleCheckAll /\ UNCHANGED <<loadVars, normVars, batchVars>>
  \/ handleCheckChannel /\ UNCHANGED <<loadVars, normVars, batchVars>>
  \/ \E r \in 1..Len(runs) : \E p \in 1..Len(runs[r].probes) :
       FetchResolve(r, p) /\ UNCHANGED <<loadVars, normVars, batchVars>>
  \/ \E r \in 1..Len(runs) : \E p \in 1..Len(runs[r].probes) :
       ReadResolve(r, p) /\ UNCHANGED <<loadVars, normVars, batchVars>>
  \/ \E r \in 1..Len(runs) : BatchDone(r) /\ UNCHANGED <<loadVars, normVars, batchVars>>

Spec == Init /\ [][Next]_vars

\* every pending fetch settles (at the latest when the abort timer fires),
\* every read of a body that delivers settles, and the continuation of a
\* resolved Promise.all runs
FairSpec ==
  /\ Spec
  /\ WF_vars(\E r \in 1..Len(runs) : \E p \in 1..Len(runs[r].probes) :
               FetchResolve(r, p) /\ UNCHANGED <<loadVars, normVars, batchVars>>)
  /\ WF_vars(\E r \in 1..Len(runs) : \E p \in 1..Len(runs[r].probes) :
               ReadResolve(r, p) /\ UNCHANGED <<loadVars, normVars, batchVars>>)
  /\ WF_vars(\E r \in 1..Len(runs) : BatchDone(r) /\ UNCHANGED <<loadVars, normVars, batchVars>>)

----------------------------------------------------------------------------
(* Text: a string is a sequence of characters; an ASCII character is the   *)
(* string of that character, any other character is named by its code      *)
(* point ("u536b").                                                        *)

\* the value of an expression, computed before the expression that uses it
\* (as a statement is before the next one): bind it by  x \in {expression}
The(S) == CHOOSE x \in S : TRUE

\* the characters of a string literal
Chars(s) == [i \in 1..Len(s) |-> SubSeq(s, i, i)]

Whitespace == {" ", "\t", "\r"}
Digits == {"0", "1", "2", "3", "4", "5", "6", "7", "8", "9"}

LowerCase == <<"a", "b", "c", "d", "e", "f", "g", "h", "i", "j", "k", "l", "m",
               "n", "o", "p", "q", "r", "s", "t", "u", "v", "w", "x", "y", "z">>
UpperCase == <<"A", "B", "C", "D", "E", "F", "G", "H", "I", "J", "K", "L", "M",
               "N", "O", "P", "Q", "R", "S", "T", "U", "V", "W", "X", "Y", "Z">>

\* String.prototype.toUpperCase
ToUpperCase(str) ==
  [i \in 1..Len(str) |->
     IF \E k \in 1..26 : LowerCase[k] = str[i]
     THEN UpperCase[CHOOSE k \in 1..26 : LowerCase[k] = str[i]]
     ELSE str[i]]

\* the pattern matches at position i; "." in a pattern built by new RegExp
\* matches any character
MatchAt(str, i, pat, wild) ==
  /\ i + Len(pat) - 1 <= Len(str)
  /\ \A k \in 1..Len(pat) : (wild /\ pat[k] = ".") \/ str[i + k - 1] = pat[k]

\* String.prototype.startsWith
StartsWith(str, pat) == MatchAt(str, 1, pat, FALSE)

\* String.prototype.includes
Includes(str, pat) == \E i \in 1..(Len(str) + 1) : MatchAt(str, i, pat, FALSE)

\* String.prototype.trim
Trim(str) ==
  IF \A i \in 1..Len(str) : str[i] \in Whitespace THEN <<>>
  ELSE LET first == CHOOSE i \in 1..Len(str) :
                      str[i] \notin Whitespace /\ \A j \in 1..(i - 1) : str[j] \in Whitespace
           last == CHOOSE i \in 1..Len(str) :
                     str[i] \notin Whitespace /\ \A j \in (i + 1)..Len(str) : str[j] \in Whitespace
       IN  SubSeq(str, first, last)

RECURSIVE RemoveFrom(_, _, _)
\* str.replace(new RegExp(k, 'g'), '') from position i on
RemoveFrom(str, i, k) ==
  IF i > Len(str) THEN <<>>
  ELSE IF MatchAt(str, i, k, TRUE)
  THEN The({RemoveFrom(str, next, k) : next \in {i + Len(k)}})
  ELSE <<str[i]>> \o The({RemoveFrom(str, next, k) : next \in {i + 1}})

\* str.replace(new RegExp(k, 'g'), ''): the string itself when k matches
\* nowhere
RemoveAll(str, k) ==
  IF \E i \in 1..Len(str) : MatchAt(str, i, k, TRUE) THEN RemoveFrom(str, 1, k)
  ELSE str

RECURSIVE RemoveEnclosedFrom(_, _, _, _)
\* str.replace(/\[.*?\]/g, '') for the pair of delimiters, from position i on
RemoveEnclosedFrom(str, i, open, close) ==
  IF i > Len(str) THEN <<>>
  ELSE IF str[i] = open /\ \E j \in (i + 1)..Len(str) : str[j] = close
  THEN LET j == CHOOSE j \in (i + 1)..Len(str) :
                  str[j] = close /\ \A m \in (i + 1)..(j - 1) : str[m] # close
       IN  RemoveEnclosedFrom(str, j + 1, open, close)
  ELSE <<str[i]>> \o RemoveEnclosedFrom(str, i + 1, open, close)

RemoveEnclosed(str, open, close) == RemoveEnclosedFrom(str, 1, open, close)

\* the first position from i on whose character is not of the class
SkipClass(str, i, class) ==
  IF \E j \in i..Len(str) : str[j] \notin class
  THEN CHOOSE j \in i..Len(str) :
         str[j] \notin class /\ \A m \in i..(j - 1) : str[m] \in class
  ELSE Len(str) + 1

RECURSIVE NormalizeCctvFrom(_, _)
\* str.replace(/CCTV\s*[-]?\s*(\d+)(\+)?/g, 'CCTV-$1$2') from position i on
NormalizeCctvFrom(str, i) ==
  IF i > Len(str) THEN <<>>
  ELSE The({The({The({The({The({
         IF MatchAt(str, i, <<"C", "C", "T", "V">>, FALSE) /\ d > c
         THEN <<"C", "C", "T", "V", "-">> \o SubSeq(str, c, e - 1)
              \o NormalizeCctvFrom(str, e)
         ELSE <<str[i]>> \o The({NormalizeCctvFrom(str, next) : next \in {i + 1}}) :
           e \in {IF d <= Len(str) /\ str[d] = "+" THEN d + 1 ELSE d}}) :
           d \in {SkipClass(str, c, Digits)}}) :
           c \in {SkipClass(str, b, Whitespace)}}) :
           b \in {IF a <= Len(str) /\ str[a] = "-" THEN a + 1 ELSE a}}) :
           a \in {SkipClass(str, i + 4, Whitespace)}})

\* str.replace(/\s+/g, '')
RemoveWhitespace(str) ==
  LET RECURSIVE Keep(_)
      Keep(i) == IF i > Len(str) THEN <<>>
                 ELSE (IF str[i] \in Whitespace THEN <<>> ELSE <<str[i]>>) \o Keep(i + 1)
  IN  Keep(1)

\* str.replace(/[-_]+$/, '')
StripTrailingSeparators(str) ==
  IF \A i \in 1..Len(str) : str[i] \in {"-", "_"} THEN <<>>
  ELSE LET last == CHOOSE i \in 1..Len(str) :
                     str[i] \notin {"-", "_"} /\ \A j \in (i + 1)..Len(str) : str[j] \in {"-", "_"}
       IN  SubSeq(str, 1, last)

----------------------------------------------------------------------------
(* normalizeName *)

\* the vocabulary of normalizeName, in the order of the source
keywords ==
  << <<"H", "D">>, <<"F", "H", "D">>, <<"S", "D">>, <<"U", "H", "D">>,
     <<"H", "E", "V", "C">>, <<"H", ".", "2", "6", "5">>, <<"H", "2", "6", "4">>,
     <<"I", "P", "T", "V">>, <<"L", "I", "V", "E">>, <<"u76f4", "u64ad">>,
     <<"u9ad8", "u6e05">>, <<"u8d85", "u6e05">>, <<"u6807", "u6e05">>, <<"u9891", "u9053">>,
     <<"T", "E", "S", "T">>, <<"u6d4b", "u8bd5">>,
     <<"I", "P", "V", "6">>, <<"I", "P", "V", "4">>,
     <<"1", "0", "8", "0", "P">>, <<"7", "2", "0", "P">>, <<"4", "K">>, <<"8", "K">>,
     <<"5", "0", "F", "P", "S">>, <<"6", "0", "F", "P", "S">>,
     <<"u7535", "u4fe1">>, <<"u8054", "u901a">>, <<"u79fb", "u52a8">>, <<"u9152", "u5e97">> >>

RECURSIVE RemoveKeywords(_, _)
\* keywords.forEach(k => n = n.replace(new RegExp(k, 'g'), ''))
RemoveKeywords(n, ks) ==
  IF ks = <<>> THEN n
  ELSE The({RemoveKeywords(step.removed, step.rest) :
              step \in {[removed |-> RemoveAll(n, Head(ks)), rest |-> Tail(ks)]}})

normalizeName(name) ==
  The({Trim(n6) :
    n6 \in {StripTrailingSeparators(n5) :
      n5 \in {RemoveWhitespace(n4) :
        n4 \in {RemoveKeywords(n3, keywords) :
          n3 \in {NormalizeCctvFrom(n2, 1) :
            n2 \in {RemoveEnclosed(round, "(", ")") :
              round \in {RemoveEnclosed(square, "uff08", "uff09") :
                square \in {RemoveEnclosed(n1, "[", "]") :
                  n1 \in {ToUpperCase(name)}}}}}}}}})

----------------------------------------------------------------------------
(* parseAndAggregate *)

RECURSIVE SplitFrom(_, _, _)
\* String.prototype.split(sep) for a one-character separator: the part that
\* starts at position i, then the parts after it
SplitFrom(str, i, sep) ==
  IF \E j \in i..Len(str) : str[j] = sep
  THEN LET j == CHOOSE j \in i..Len(str) :
                  str[j] = sep /\ \A m \in i..(j - 1) : str[m] # sep
       IN  The({<<SubSeq(str, i, next - 2)>> \o SplitFrom(str, next, sep) :
                  next \in {j + 1}})
  ELSE <<SubSeq(str, i, Len(str))>>

Split(str, sep) == SplitFrom(str, 1, sep)

RECURSIVE Join(_, _)
\* Array.prototype.join(sep)
Join(parts, sep) ==
  IF parts = <<>> THEN <<>>
  ELSE IF Len(parts) = 1 THEN parts[1]
  ELSE parts[1] \o <<sep>> \o Join(Tail(parts), sep)

\* line.match(/attr="([^"]*)"/): no match is the empty sequence, a match is
\* the sequence of its one captured group
AttrMatch(line, attr) ==
  The({The({
    IF starts = {} THEN <<>>
    ELSE The({The({<<SubSeq(line, from, j - 1)>> :
           j \in {CHOOSE j \in from..Len(line) :
                    line[j] = "\"" /\ \A m \in from..(j - 1) : line[m] # "\""}}) :
           from \in {Len(prefix) + CHOOSE i \in starts : \A m \in starts : i <= m}}) :
    starts \in {{i \in 1..Len(line) :
                  /\ MatchAt(line, i, prefix, FALSE)
                  /\ \E j \in (i + Len(prefix))..Len(line) : line[j] = "\""}}}) :
    prefix \in {Chars(attr) \o Chars("=\"")}})

\* state of the line loop of one playlist; call holds the arguments of the
\* addChannelToMap call the line made, if it made one
NewLineState == [currentName |-> <<>>, currentGroup |-> <<>>, call |-> <<>>]

HandleLine_ClearAfterUrl(st, line, parts, last, category) ==
  LET quiet == [st EXCEPT !.call = <<>>]
  IN  IF line = <<>> THEN quiet
      ELSE IF StartsWith(line, Chars("#EXTINF:"))
      THEN The({The({
             LET preferred == IF tvgNameMatch # <<>> THEN tvgNameMatch[1] ELSE last
             IN  [currentName |-> IF preferred = <<>> THEN last ELSE preferred,
                  currentGroup |-> IF groupMatch # <<>> THEN groupMatch[1]
                                   ELSE Chars("Uncategorized"),
                  call |-> <<>>] :
             tvgNameMatch \in {AttrMatch(line, "tvg-name")}}) :
             groupMatch \in {AttrMatch(line, "group-title")}})
      ELSE IF Includes(line, <<",">>) /\ ~ StartsWith(line, <<"#">>)
      THEN IF \/ StartsWith(last, Chars("http"))
              \/ StartsWith(last, Chars("rtmp"))
              \/ StartsWith(last, Chars("p2p"))
           THEN [currentName |-> <<>>,
                 currentGroup |-> st.currentGroup,
                 call |-> <<[name |-> Trim(Join(SubSeq(parts, 1, Len(parts) - 1), ",")),
                             group |-> Chars("Other"),
                             url |-> last,
                             category |-> category]>>]
           ELSE quiet
      ELSE IF /\ ~ StartsWith(line, <<"#">>)
              /\ StartsWith(line, Chars("http")) \/ StartsWith(line, Chars("rtmp"))
      THEN IF st.currentName # <<>>
           THEN [currentName |-> <<>>,
                 currentGroup |-> <<>>,
                 call |-> <<[name |-> st.currentName,
                             group |-> st.currentGroup,
                             url |-> line,
                             category |-> category]>>]
           ELSE quiet
      ELSE quiet

HandleLine_KeepPending(st, line, parts, last, category) ==
  LET quiet == [st EXCEPT !.call = <<>>]
  IN  IF line = <<>> THEN quiet
      ELSE IF StartsWith(line, Chars("#EXTINF:"))
      THEN The({The({
             LET preferred == IF tvgNameMatch # <<>> THEN tvgNameMatch[1] ELSE last
             IN  [currentName |-> IF preferred = <<>> THEN last ELSE preferred,
                  currentGroup |-> IF groupMatch # <<>> THEN groupMatch[1]
                                   ELSE Chars("Uncategorized"),
                  call |-> <<>>] :
             tvgNameMatch \in {AttrMatch(line, "tvg-name")}}) :
             groupMatch \in {AttrMatch(line, "group-title")}})
      ELSE IF Includes(line, <<",">>) /\ ~ StartsWith(line, <<"#">>)
      THEN IF \/ StartsWith(last, Chars("http"))
              \/ StartsWith(last, Chars("rtmp"))
              \/ StartsWith(last, Chars("p2p"))
           THEN [currentName |-> st.currentName,
                 currentGroup |-> st.currentGroup,
                 call |-> <<[name |-> Trim(Join(SubSeq(parts, 1, Len(parts) - 1), ",")),
                             group |-> Chars("Other"),
                             url |-> last,
                             category |-> category]>>]
           ELSE quiet
      ELSE IF /\ ~ StartsWith(line, <<"#">>)
              /\ StartsWith(line, Chars("http")) \/ StartsWith(line, Chars("rtmp"))
      THEN IF st.currentName # <<>>
           THEN [st EXCEPT !.call = <<[name |-> st.currentName,
                                       group |-> st.currentGroup,
                                       url |-> line,
                                       category |-> category]>>]
           ELSE quiet
      ELSE quiet

\* line is the trimmed line, parts its comma-separated parts, last the
\* trimmed last part
HandleLine(st, line, parts, last, category) ==
  LET quiet == [st EXCEPT !.call = <<>>]
  IN  IF line = <<>> THEN quiet
      ELSE IF StartsWith(line, Chars("#EXTINF:"))
      THEN The({The({
             LET preferred == IF tvgNameMatch # <<>> THEN tvgNameMatch[1] ELSE last
             IN  [currentName |-> IF preferred = <<>> THEN last ELSE preferred,
                  currentGroup |-> IF groupMatch # <<>> THEN groupMatch[1]
                                   ELSE Chars("Uncategorized"),
                  call |-> <<>>] :
             tvgNameMatch \in {AttrMatch(line, "tvg-name")}}) :
             groupMatch \in {AttrMatch(line, "group-title")}})
      ELSE IF Includes(line, <<",">>) /\ ~ StartsWith(line, <<"#">>)
      THEN IF \/ StartsWith(last, Chars("http"))
              \/ StartsWith(last, Chars("rtmp"))
              \/ StartsWith(last, Chars("p2p"))
           THEN [currentName |-> <<>>,
                 currentGroup |-> st.currentGroup,
                 call |-> <<[name |-> Trim(Join(SubSeq(parts, 1, Len(parts) - 1), ",")),
                             group |-> Chars("Other"),
                             url |-> last,
                             category |-> category]>>]
           ELSE quiet
      ELSE IF /\ ~ StartsWith(line, <<"#">>)
              /\ StartsWith(line, Chars("http")) \/ StartsWith(line, Chars("rtmp"))
      THEN IF st.currentName # <<>>
           THEN [st EXCEPT !.call = <<[name |-> st.currentName,
                                       group |-> st.currentGroup,
                                       url |-> line,
                                       category |-> category]>>]
           ELSE quiet
      ELSE quiet

\* one iteration of `for (let line of lines)`
ParseLine(st, rawLine, category) ==
  The({The({The({HandleLine(st, line, parts, last, category) :
                   last \in {Trim(parts[Len(parts)])}}) :
              parts \in {Split(line, ",")}}) :
         line \in {Trim(rawLine)}})

RECURSIVE LineLoop(_, _, _, _)
\* the line loop over one playlist from line k on: the state after each
\* line
LineLoop(st, lines, k, category) ==
  IF k > Len(lines) THEN <<>>
  ELSE The({<<next>> \o LineLoop(next, lines, k + 1, category) :
                            next \in {ParseLine(st, lines[k], category)}})

RECURSIVE Calls(_)
\* the addChannelToMap calls of the line loop, in order
Calls(states) ==
  IF states = <<>> THEN <<>> ELSE Head(states).call \o Calls(Tail(states))

\* the body of playlists.forEach for one playlist
ParsePlaylist(playlist) ==
  The({Calls(states) :
    states \in {LineLoop(NewLineState, lines, 1, playlist.category) :
      lines \in {Split(playlist.content, "\n")}}})

RECURSIVE ParsePlaylists(_)
\* playlists.forEach: the addChannelToMap calls of all playlists, in order
ParsePlaylists(playlists) ==
  IF playlists = <<>> THEN <<>>
  ELSE The({step.first \o ParsePlaylists(step.rest) :
              step \in {[first |-> ParsePlaylist(Head(playlists)),
                         rest |-> Tail(playlists)]}})

KeyRejected_EmptyOnly(key) == key = <<>>

\* if (!normalizedKey || normalizedKey.length < 2) return;
KeyRejected(key) == key = <<>> \/ Len(key) < 2

MapHas_Never(channelMap, key) == FALSE

\* channelMap.has(key); channelMap is the sequence of its entries in
\* insertion order
MapHas(channelMap, key) == \E k \in 1..Len(channelMap) : channelMap[k].key = key

MapIndex(channelMap, key) == CHOOSE k \in 1..Len(channelMap) : channelMap[k].key = key

addChannelToMap_PushAlways(channelMap, name, group, url, category) ==
  The({The({
    LET created == IF MapHas(channelMap, key) THEN channelMap
                   ELSE Append(channelMap,
                               [key |-> key,
                                channel |-> [id |-> "c" \o ToString(Len(channelMap) + 1),
                                             name |-> clean,
                                             group |-> IF group = <<>> THEN Chars("Other") ELSE group,
                                             category |-> category,
                                             sources |-> <<>>,
                                             bestSource |-> <<>>]])
        k == MapIndex(created, key)
        sources == created[k].channel.sources
    IN  IF KeyRejected(key) THEN channelMap
        ELSE [created EXCEPT ![k].channel.sources =
                Append(@, NewSource(SourceId(k, Len(@) + 1), url))] :
    key \in {normalizeName(clean)}}) : clean \in {Trim(name)}})

addChannelToMap_LastWriter(channelMap, name, group, url, category) ==
  The({The({
    LET created == IF MapHas(channelMap, key)
                   THEN [channelMap EXCEPT
                           ![MapIndex(channelMap, key)].channel.name = clean,
                           ![MapIndex(channelMap, key)].channel.group =
                              IF group = <<>> THEN Chars("Other") ELSE group,
                           ![MapIndex(channelMap, key)].channel.category = category]
                   ELSE Append(channelMap,
                               [key |-> key,
                                channel |-> [id |-> "c" \o ToString(Len(channelMap) + 1),
                                             name |-> clean,
                                             group |-> IF group = <<>> THEN Chars("Other") ELSE group,
                                             category |-> category,
                                             sources |-> <<>>,
                                             bestSource |-> <<>>]])
        k == MapIndex(created, key)
        sources == created[k].channel.sources
    IN  IF KeyRejected(key) THEN channelMap
        ELSE IF \E n \in 1..Len(sources) : sources[n].url = url THEN created
        ELSE [created EXCEPT ![k].channel.sources =
                Append(@, NewSource(SourceId(k, Len(@) + 1), url))] :
    key \in {normalizeName(clean)}}) : clean \in {Trim(name)}})

\* generateId gives a fresh id at each call: the channel's id is the number
\* of its entry, a source's id the numbers of its channel and of its place
addChannelToMap(channelMap, name, group, url, category) ==
  The({The({
    LET created == IF MapHas(channelMap, key) THEN channelMap
                   ELSE Append(channelMap,
                               [key |-> key,
                                channel |-> [id |-> "c" \o ToString(Len(channelMap) + 1),
                                             name |-> clean,
                                             group |-> IF group = <<>> THEN Chars("Other") ELSE group,
                                             category |-> category,
                                             sources |-> <<>>,
                                             bestSource |-> <<>>]])
        k == MapIndex(created, key)
        sources == created[k].channel.sources
    IN  IF KeyRejected(key) THEN channelMap
        ELSE IF \E n \in 1..Len(sources) : sources[n].url = url THEN created
        ELSE [created EXCEPT ![k].channel.sources =
                Append(@, NewSource(SourceId(k, Len(@) + 1), url))] :
    key \in {normalizeName(clean)}}) : clean \in {Trim(name)}})

RECURSIVE AddCalls(_, _)
\* the calls of addChannelToMap applied to the map, in order
AddCalls(channelMap, calls) ==
  IF calls = <<>> THEN channelMap
  ELSE The({AddCalls(step.next, step.rest) :
              step \in {[next |-> addChannelToMap(channelMap, Head(calls).name,
                                                  Head(calls).group, Head(calls).url,
                                                  Head(calls).category),
                         rest |-> Tail(calls)]}})

\* the characters the names of the model are written with, by ascending
\* primary weight of the zh-CN collation: space, punctuation, symbols,
\* digits, Latin letters, Han characters by their reading
CollationOrder ==
  <<" ", "_", "-", ",", ".", "(", ")", "[", "]", "/", ":", "+",
    "0", "1", "2", "3", "4", "5", "6", "7", "8", "9">> \o UpperCase \o
  <<"u6c5f", "u89c6", "u536b", "u6d59">>

PrimaryWeight(char) ==
  The({The({IF \E k \in 1..Len(order) : order[k] = upper
            THEN CHOOSE k \in 1..Len(order) : order[k] = upper
            ELSE Len(order) + 1 :
              upper \in {ToUpperCase(<<char>>)[1]}}) : order \in {CollationOrder}})

\* the primary weights of the characters of a name
PrimaryWeights(name) ==
  The({[k \in 1..Len(n) |-> PrimaryWeight(n[k])] : n \in {name}})

IsLowerCase(char) == \E k \in 1..26 : LowerCase[k] = char

\* a.localeCompare(b, 'zh-CN'): the primary weights decide, the shorter of two
\* names that agree on their common length first; between names with equal
\* primary weights the first difference of letter case decides, lower case
\* first
localeCompare(a, b) ==
  The({The({
    LET common == IF Len(wa) < Len(wb) THEN Len(wa) ELSE Len(wb)
        differ == {k \in 1..common : wa[k] # wb[k]}
        cased == {k \in 1..common : a[k] # b[k]}
        First(S) == CHOOSE k \in S : \A m \in S : k <= m
    IN  IF differ # {}
        THEN (IF wa[First(differ)] < wb[First(differ)] THEN -1 ELSE 1)
        ELSE IF Len(wa) # Len(wb) THEN (IF Len(wa) < Len(wb) THEN -1 ELSE 1)
        ELSE IF cased = {} THEN 0
        ELSE IF IsLowerCase(a[First(cased)]) THEN -1 ELSE 1 :
    wb \in {PrimaryWeights(b)}}) : wa \in {PrimaryWeights(a)}})

\* the comparator of the final sort
CompareChannels_NameOnly(a, b) == localeCompare(a.name, b.name)

CompareChannels(a, b) ==
  LET isCCTVa == Includes(ToUpperCase(a.name), Chars("CCTV"))
      isCCTVb == Includes(ToUpperCase(b.name), Chars("CCTV"))
      isWSa == Includes(a.name, <<"u536b", "u89c6">>)
      isWSb == Includes(b.name, <<"u536b", "u89c6">>)
  IN  IF isCCTVa /\ ~ isCCTVb THEN -1
      ELSE IF ~ isCCTVa /\ isCCTVb THEN 1
      ELSE IF isWSa /\ ~ isWSb THEN -1
      ELSE IF ~ isWSa /\ isWSb THEN 1
      ELSE localeCompare(a.name, b.name)

\* Array.prototype.sort is stable: an element goes behind the elements that
\* do not compare greater than it
InsertChannel(sorted, ch) ==
  LET k == IF \E j \in 1..Len(sorted) : CompareChannels(sorted[j], ch) > 0
           THEN CHOOSE j \in 1..Len(sorted) :
                  /\ CompareChannels(sorted[j], ch) > 0
                  /\ \A m \in 1..(j - 1) : CompareChannels(sorted[m], ch) <= 0
           ELSE Len(sorted) + 1
  IN  SubSeq(sorted, 1, k - 1) \o <<ch>> \o SubSeq(sorted, k, Len(sorted))

RECURSIVE SortChannelsFrom(_, _)
SortChannelsFrom(sorted, rest) ==
  IF rest = <<>> THEN sorted
  ELSE The({SortChannelsFrom(step.next, step.rest) :
              step \in {[next |-> InsertChannel(sorted, Head(rest)), rest |-> Tail(rest)]}})

\* Array.from(channelMap.values()).sort(...)
SortChannels(values) == SortChannelsFrom(<<>>, values)

\* Array.from(channelMap.values())
MapValues(channelMap) == [k \in 1..Len(channelMap) |-> channelMap[k].channel]

parseAndAggregate(playlists) ==
  The({SortChannels(values) :
    values \in {MapValues(channelMap) :
      channelMap \in {AddCalls(<<>>, calls) :
        calls \in {ParsePlaylists(playlists)}}}})

----------------------------------------------------------------------------
(* The canonical key of a name: the first two statements of                *)
(* addChannelToMap applied to names drawn from a family of spellings.      *)

Spellings == {"CCTV", "cctv", "Cctv"}
Separators == {"", " ", "-", " - ", "  "}
Numbers == {"1", "5", "13"}
Annotations ==
  { <<>>, Chars(" HD"), Chars(" [IPv6] HD"), Chars("(HEVC)"), Chars(" 4K"),
    Chars(" FHD"), Chars(" UHD"), Chars(" 1080P"), Chars(" H.265"),
    <<" ", "u9ad8", "u6e05">>, <<"uff08", "u6d4b", "u8bd5", "uff09">> }

\* the names CCTV, optional spaces or a hyphen, the digits, an annotation
CctvNames(number) ==
  { Chars(c) \o Chars(sep) \o Chars(number) \o a :
      c \in Spellings, sep \in Separators, a \in Annotations }

RawNames ==
  UNION { CctvNames(number) : number \in Numbers }
    \cup { <<>>, Chars("A"), Chars(" A "), Chars("HD"), Chars("ESPN"), Chars("BBC [HD]") }

NormInit ==
  /\ channels = <<>>
  /\ isChecking = FALSE
  /\ checkProgress = Progress(0, 1)
  /\ totalToCheck = 0
  /\ checkedCount = 0
  /\ runs = <<>>
  /\ cycles = 0
  /\ loadingData = FALSE
  /\ remote = <<>>
  /\ promises = <<>>
  /\ cleanName \in { Trim(name) : name \in RawNames }
  /\ normalizedKey = <<>>
  /\ batchPrev = <<>>
  /\ batchOutcomes = <<>>
  /\ batchResults = <<>>

\* const normalizedKey = normalizeName(cleanName);
Normalize ==
  /\ normalizedKey = <<>>
  /\ normalizedKey' = <<normalizeName(cleanName)>>
  /\ UNCHANGED <<channels, isChecking, checkProgress, totalToCheck, checkedCount,
                 runs, cycles, loadVars, batchVars, cleanName>>

NormNext == Normalize

NormSpec == NormInit /\ [][NormNext]_vars

----------------------------------------------------------------------------
(* loadPresets: the playlists are fetched concurrently and aggregated       *)

\* number of configured presets (the program configures six)
MaxPresets == 2

\* the text of a document from its lines
Document(lines) == Join(lines, "\n")

\* an M3U playlist: attributes, two URL lines under one metadata line, a
\* metadata line without group-title
PlaylistM3U ==
  Document(<< Chars("#EXTM3U"),
              Chars("#EXTINF:-1 tvg-name=\"CCTV1\" group-title=\"News\",CCTV-1 HD"),
              Chars("http://a/1"),
              Chars("http://a/2"),
              Chars("#EXTINF:-1,ESPN"),
              Chars("http://e/1") >>)

\* a TXT playlist: inline lines, a URL that PlaylistM3U lists too, a name
\* with a one-character key, a URL line without a name
PlaylistTXT ==
  Document(<< Chars("http://o/1"),
              Chars("cctv 1,http://a/3"),
              Chars("CCTV-1 [IPv6],http://a/1"),
              Chars("A,http://x/1"),
              <<"u6d59", "u6c5f", "u536b", "u89c6">> \o Chars(",http://w/1"),
              Chars("BBC,http://b/2") >>)

\* a playlist that mixes the formats: an inline line after a metadata line,
\* an empty group-title, a metadata line with an empty name, a line that
\* ends with a carriage return
PlaylistMixed ==
  Document(<< Chars("#EXTINF:-1,CCTV5"),
              Chars("http://c/5"),
              Chars("Movie,http://m/1"),
              Chars("http://o/3"),
              Chars("CCTV-4 ") \o <<"u536b", "u89c6">> \o Chars(",http://c/4"),
              Chars("#EXTINF:-1 group-title=\"\",BBC"),
              Chars("http://b/1"),
              Chars("#EXTINF:-1 tvg-name=\"\" group-title=\"Sports\","),
              Chars("http://o/2"),
              Chars("#EXTINF:-1 group-title=\"Sports\",ESPN HD"),
              Chars("http://e/2\r") >>)

Documents == {PlaylistM3U, PlaylistTXT, PlaylistMixed}

\* PRESETS[i].category: the last preset is the international one
PresetCategory(i) == IF i = MaxPresets THEN "International" ELSE "China"

\* the promise of PRESETS.map for one preset, suspended in await fetch
NewPromise == [pc |-> "fetch", value |-> <<>>, order |-> 0]

\* number of promises that have settled
Settled(ps) == Cardinality({i \in 1..Len(ps) : ps[i].pc = "settled"})

LoadInit ==
  /\ channels = <<>>
  /\ isChecking = FALSE
  /\ checkProgress = Progress(0, 1)
  /\ totalToCheck = 0
  /\ checkedCount = 0
  /\ runs = <<>>
  /\ cycles = 0
  /\ loadingData = TRUE
  /\ remote \in [1..MaxPresets -> Documents]
  /\ promises = [i \in 1..MaxPresets |-> NewPromise]
  /\ cleanName = <<>>
  /\ normalizedKey = <<>>
  /\ batchPrev = <<>>
  /\ batchOutcomes = <<>>
  /\ batchResults = <<>>

\* return null (response not ok, or an exception caught)
SettleNull(ps, i) ==
  [ps EXCEPT ![i] = [pc |-> "settled", value |-> <<>>, order |-> Settled(ps) + 1]]

\* return { content, category: preset.category }
SettleContent(ps, i, content) ==
  [ps EXCEPT ![i] = [pc |-> "settled",
                     value |-> <<[content |-> content, category |-> PresetCategory(i)]>>,
                     order |-> Settled(ps) + 1]]

\* await fetch(preset.url) resolves with an ok response, resolves with a
\* response that is not ok, or rejects
LoadFetchResolve(i) ==
  /\ promises[i].pc = "fetch"
  /\ \/ promises' = [promises EXCEPT ![i].pc = "text"]
     \/ promises' = SettleNull(promises, i)
  /\ UNCHANGED <<channels, isChecking, checkProgress, totalToCheck, checkedCount,
                 runs, cycles, loadingData, remote, normVars, batchVars>>

\* await res.text() resolves with the document or rejects
LoadTextResolve(i) ==
  /\ promises[i].pc = "text"
  /\ \/ promises' = SettleContent(promises, i, remote[i])
     \/ promises' = SettleNull(promises, i)
  /\ UNCHANGED <<channels, isChecking, checkProgress, totalToCheck, checkedCount,
                 runs, cycles, loadingData, remote, normVars, batchVars>>

\* const results = await Promise.all(promises): the values by position
Results_CompletionOrder(ps) ==
  [n \in 1..Len(ps) |-> ps[CHOOSE i \in 1..Len(ps) : ps[i].order = n].value]

Results(ps) == [i \in 1..Len(ps) |-> ps[i].value]

RECURSIVE validResults(_)
\* results.filter(r => r !== null)
validResults(results) ==
  IF results = <<>> THEN <<>>
  ELSE Head(results) \o validResults(Tail(results))

\* the continuation of loadPresets after await Promise.all
LoadDone ==
  /\ loadingData
  /\ \A i \in 1..Len(promises) : promises[i].pc = "settled"
  /\ channels' = The({parseAndAggregate(valid) :
                        valid \in {validResults(results) :
                          results \in {Results(promises)}}})
  /\ loadingData' = FALSE
  /\ UNCHANGED <<isChecking, checkProgress, totalToCheck, checkedCount,
                 runs, cycles, remote, promises, normVars, batchVars>>

LoadNext ==
  \/ \E i \in 1..MaxPresets : LoadFetchResolve(i)
  \/ \E i \in 1..MaxPresets : LoadTextResolve(i)
  \/ LoadDone

LoadSpec == LoadInit /\ [][LoadNext]_vars

\* the continuation of a settled Promise.all is run
FairLoadSpec == LoadSpec /\ WF_vars(LoadDone)

----------------------------------------------------------------------------
(* One batch of runCheck that holds every source of a channel: the probes  *)
(* end, checkSource returns their results and the write-back applies them. *)

\* number of sources of the channel; the program's batch holds up to 12 tasks
\* (constants.ts), so all of them are in one batch
MaxResults == 2
\* number of RESOLUTION= markers in a first body chunk
MaxMarkers == 2
\* the heights a marker can name
Heights == {480, 719, 720, 1080}
\* parseInt(m[2], 10) over the matches of a chunk
MarkerHeights == {h \in SUBSET Heights : Cardinality(h) <= MaxMarkers}

\* how a probe can end: see ProbeResult
Outcomes ==
  {[response |-> response, latency |-> NULL, sniff |-> "none", heights |-> {}] :
     response \in {"failed", "notok"}}
  \cup {[response |-> "ok", latency |-> latency, sniff |-> sniff, heights |-> {}] :
          latency \in Latencies, sniff \in {"nobody", "empty", "error"}}
  \cup {[response |-> "ok", latency |-> latency, sniff |-> "chunk", heights |-> heights] :
          latency \in Latencies, heights \in MarkerHeights}

\* runCheck has marked the sources of the only channel of a catalog fresh
\* from the aggregator and has dispatched their probes
BatchInit ==
  /\ channels \in {MarkChecking(catalog, FlattenTasks(catalog)) :
                     catalog \in {Catalog(<<n>>) : n \in 1..MaxResults}}
  /\ isChecking = TRUE
  /\ checkProgress = Progress(0, 1)
  /\ totalToCheck = Len(channels[1].sources)
  /\ checkedCount = 0
  /\ runs = <<>>
  /\ cycles = 1
  /\ loadingData = FALSE
  /\ remote = <<>>
  /\ promises = <<>>
  /\ cleanName = <<>>
  /\ normalizedKey = <<>>
  /\ batchPrev = channels
  /\ batchOutcomes \in [1..Len(channels[1].sources) -> Outcomes]
  /\ batchResults = <<>>

\* const results = await Promise.all(batch.map(checkSource))
CheckSources ==
  /\ batchResults = <<>>
  /\ batchResults' =
       [k \in 1..Len(batchOutcomes) |->
          ProbeResult(FlattenTasks(batchPrev)[k], batchOutcomes[k].response,
                      batchOutcomes[k].latency, batchOutcomes[k].sniff,
                      batchOutcomes[k].heights)]
  /\ UNCHANGED <<channels, isChecking, checkProgress, totalToCheck, checkedCount,
                 runs, cycles, loadVars, normVars, batchPrev, batchOutcomes>>

\* the continuation of the only batch: write-back, counters, end of the cycle
WriteBack ==
  /\ batchResults # <<>>
  /\ isChecking
  /\ channels' = ApplyResults(channels, batchResults)
  /\ checkedCount' = checkedCount + Len(batchResults)
  /\ checkProgress' = Progress(Len(batchResults), Len(FlattenTasks(batchPrev)))
  /\ isChecking' = FALSE
  /\ UNCHANGED <<totalToCheck, runs, cycles, loadVars, normVars, batchVars>>

BatchNext == CheckSources \/ WriteBack

BatchSpec == BatchInit /\ [][BatchNext]_vars

----------------------------------------------------------------------------
(* Properties *)

Range(seq) == {seq[k] : k \in 1..Len(seq)}

\* the probes of all runs that are dispatched and not yet resolved
InFlight ==
  {<<r, p>> \in (1..Len(runs)) \X (1..MaxTasks) :
     p <= Len(runs[r].probes) /\ runs[r].probes[p].pc # "done"}

\* C1: at most one check cycle is active at any time; a step taken while a
\* cycle is in progress starts no cycle and no new invocation, and a cycle
\* begins only when the in-progress flag is clear and no invocation is left.
C1_SingleCycle ==
  /\ [](Len(runs) <= 1 /\ (isChecking <=> Len(runs) = 1))
  /\ [][isChecking => (cycles' = cycles /\ Len(runs') <= Len(runs))]_vars
  /\ [][cycles' # cycles => (~isChecking /\ runs = <<>>)]_vars

\* a second cycle runs after the first one has completed
C1_Witness ==
  /\ cycles = 2
  /\ isChecking
  /\ Len(runs) = 1
  /\ runs[1].i > 0

\* C2: every channel whose bestSource is present has bestSource equal to
\* sources[0] (same id, status, latency and resolution).
C2_BestIsFirst ==
  \A c \in 1..Len(channels) :
    channels[c].bestSource # <<>> =>
      channels[c].bestSource[1] = channels[c].sources[1]

Pending(r) ==
  {k \in 1..Len(runs[r].tasks) : k > runs[r].i}

SourceOf(chs, task) ==
  LET c == ChannelIndex(chs, task.channelId)
  IN  chs[c].sources[SourceIndex(chs[c].sources, task.sourceId)]

ClaimScore(s) ==
  CASE s.status = "online" -> 100000 - s.latency
    [] s.status = "error" -> 50000
    [] s.status = "checking" -> 100
    [] OTHER -> 0

StatusRank(s) ==
  CASE s.status = "online" -> 3
    [] s.status = "error" -> 2
    [] s.status = "checking" -> 1
    [] OTHER -> 0

\* C5: after each batch write-back the sources of every channel that
\* received a result are in non-increasing score order: online before error
\* before checking before offline or idle, online sources by rising latency.
C5_RankedAfterWriteBack ==
  [][checkedCount' > checkedCount =>
       \A r \in 1..Len(runs) : \A p \in 1..Len(runs[r].probes) :
         LET srcs == channels'[ChannelIndex(channels', runs[r].probes[p].task.channelId)].sources
         IN  \A j, k \in 1..Len(srcs) :
               j < k =>
                 /\ ClaimScore(srcs[j]) >= ClaimScore(srcs[k])
                 /\ StatusRank(srcs[j]) >= StatusRank(srcs[k])
                 /\ (srcs[j].status = "online" /\ srcs[k].status = "online"
                       => srcs[j].latency <= srcs[k].latency)]_vars

\* the second source of a channel has overtaken the first one
C5_Witness ==
  \E c \in 1..Len(channels) :
    /\ Len(channels[c].sources) >= 2
    /\ channels[c].sources[1].id = SourceId(c, 2)
    /\ channels[c].sources[1].status = "online"
    /\ channels[c].sources[1].latency = TIMEOUT_MS
    /\ channels[c].sources[2].status \in {"error", "offline"}

\* C6: while a cycle is in progress the progress percentage is 100 times
\* the checked count divided by the total, and the checked count never
\* exceeds the total.
C6_ProgressMatchesCount ==
  isChecking =>
    /\ checkProgress.num * totalToCheck = checkedCount * checkProgress.den
    /\ checkedCount <= totalToCheck

\* C7: every accepted check cycle eventually completes.
C7_CycleCompletes == isChecking ~> ~isChecking

\* C8: every resolved probe has exactly one outcome, classified by the
\* response: ok gives online with the measured latency, not ok gives offline
\* without latency and resolution, a rejected fetch gives error without
\* latency and resolution, and a failed body read leaves online with its
\* latency and no resolution.
C8_ClassifiedOutcome ==
  \A r \in 1..Len(runs) : \A p \in 1..Len(runs[r].probes) :
    LET probe == runs[r].probes[p]
    IN  IF probe.pc # "done" THEN probe.result = <<>>
        ELSE /\ Len(probe.result) = 1
             /\ probe.response \in {"ok", "notok", "failed"}
             /\ probe.result[1].sourceId = probe.task.sourceId
             /\ probe.response = "ok" =>
                  /\ probe.result[1].status = "online"
                  /\ probe.result[1].latency \in Nat
                  /\ probe.result[1].latency = probe.latency
             /\ probe.response = "notok" =>
                  /\ probe.result[1].status = "offline"
                  /\ probe.result[1].latency = NULL
                  /\ probe.result[1].resolution = UNDEFINED
             /\ probe.response = "failed" =>
                  /\ probe.result[1].status = "error"
                  /\ probe.result[1].latency = NULL
                  /\ probe.result[1].resolution = UNDEFINED
             /\ probe.sniffFailed =>
                  /\ probe.result[1].status = "online"
                  /\ probe.result[1].latency = probe.latency
                  /\ probe.result[1].resolution = UNDEFINED

\* a probe whose body read failed has resolved
C8_Witness ==
  \E r \in 1..Len(runs) : \E p \in 1..Len(runs[r].probes) :
    /\ runs[r].probes[p].pc = "done"
    /\ runs[r].probes[p].sniffFailed
    /\ runs[r].probes[p].result[1].status = "online"

\* C9: a source has a latency if and only if its status is online.
C9_LatencyIffOnline ==
  \A c \in 1..Len(channels) : \A k \in 1..Len(channels[c].sources) :
    (channels[c].sources[k].latency # NULL) <=> (channels[c].sources[k].status = "online")

\* a source that was online is being checked again next to an online source
\* and one probe has ended in error
C9_Witness ==
  /\ \E c \in 1..Len(channels) : \E k \in 1..Len(channels[c].sources) :
       /\ channels[c].sources[k].status = "checking"
       /\ channels[c].sources[k].resolution # UNDEFINED
  /\ \E c \in 1..Len(channels) : \E k \in 1..Len(channels[c].sources) :
       /\ channels[c].sources[k].status = "online"
       /\ channels[c].sources[k].latency = 0

\* C10: no step adds, removes or reorders channels, changes the id, name,
\* group or category of a channel, adds or removes a source or changes the
\* id or url of a source.
C10_Frame ==
  [][/\ Len(channels') = Len(channels)
     /\ \A c \in 1..Len(channels) :
          /\ channels'[c].id = channels[c].id
          /\ channels'[c].name = channels[c].name
          /\ channels'[c].group = channels[c].group
          /\ channels'[c].category = channels[c].category
          /\ Len(channels'[c].sources) = Len(channels[c].sources)
          /\ {<<s.id, s.url>> : s \in Range(channels'[c].sources)}
               = {<<s.id, s.url>> : s \in Range(channels[c].sources)}]_vars

\* two cycles have completed and the sources of a channel have changed places
C10_Witness ==
  /\ cycles = 2
  /\ ~isChecking
  /\ \E c \in 1..Len(channels) :
       /\ Len(channels[c].sources) = 2
       /\ channels[c].sources[1].id = SourceId(c, 2)
       /\ channels[c].bestSource = <<channels[c].sources[1]>>

\* C16: every name made of CCTV in any letter case, optional spaces or a
\* hyphen, a digit sequence and an appended bracketed annotation or noise
\* token has the canonical key of CCTV followed by the same digits; the keys of
\* the empty name and of "A" are shorter than 2 and are rejected.
C16_SameKey ==
  normalizedKey # <<>> =>
    /\ \A number \in Numbers :
         cleanName \in CctvNames(number) =>
           normalizedKey[1] = normalizeName(Chars("CCTV") \o Chars(number))
    /\ cleanName \in {<<>>, Chars("A")} =>
         Len(normalizedKey[1]) < 2 /\ KeyRejected(normalizedKey[1])

\* the string the keyword removal of normalizeName starts from: the name in
\* upper case, without the bracketed parts, with the CCTV forms rewritten
BeforeKeywords(name) ==
  The({NormalizeCctvFrom(n2, 1) :
    n2 \in {RemoveEnclosed(round, "(", ")") :
      round \in {RemoveEnclosed(square, "uff08", "uff09") :
        square \in {RemoveEnclosed(n1, "[", "]") :
          n1 \in {ToUpperCase(name)}}}}})

\* the vocabulary with keyword j moved to the front: one of its permutations
MovedFirst(ks, j) == <<ks[j]>> \o SubSeq(ks, 1, j - 1) \o SubSeq(ks, j + 1, Len(ks))

\* C22: the result of the keyword removal does not depend on the order of the
\* keywords: removing them in a permutation of the vocabulary (here each
\* permutation that moves one keyword to the front) gives the same string as
\* the order of the code.
C22_OrderIrrelevant ==
  normalizedKey # <<>> =>
    \A n \in {BeforeKeywords(cleanName)} :
      \A removed \in {RemoveKeywords(n, keywords)} :
        \A j \in 1..Len(keywords) :
          RemoveKeywords(n, MovedFirst(keywords, j)) = removed

----------------------------------------------------------------------------
(* Properties of the aggregation *)

\* the playlists that were retrieved, in configuration order
Retrieved ==
  LET Pick[i \in 0..Len(promises)] ==
        IF i = 0 THEN <<>>
        ELSE IF promises[i].value = <<>> THEN Pick[i - 1]
        ELSE Append(Pick[i - 1], [content |-> remote[i], category |-> PresetCategory(i)])
  IN  Pick[Len(promises)]

\* the parsed records of each retrieved playlist
RecordsOf(playlists) == [d \in 1..Len(playlists) |-> ParsePlaylist(playlists[d])]

\* the parsed records of all playlists
AllRecords(records) == UNION {Range(records[d]) : d \in 1..Len(records)}

KeyOf(name) == normalizeName(Trim(name))

Urls(ch) == [k \in 1..Len(ch.sources) |-> ch.sources[k].url]

\* C11: the catalog holds exactly one channel for each canonical key of length
\* at least 2 among the parsed records and none for another key; a record
\* with a shorter key adds no channel and no source; the sources of a channel
\* are the distinct URLs of the records of its key, from whichever document.
C11_OneChannelPerKey ==
  ~ loadingData =>
    LET records == AllRecords(RecordsOf(Retrieved))
        keyed == {[key |-> KeyOf(rec.name), url |-> rec.url] : rec \in records}
        keys == {r.key : r \in {r \in keyed : Len(r.key) >= 2}}
        chKey == [c \in 1..Len(channels) |-> KeyOf(channels[c].name)]
    IN  /\ \A key \in keys :
             Cardinality({c \in 1..Len(channels) : chKey[c] = key}) = 1
        /\ \A c \in 1..Len(channels) : chKey[c] \in keys
        /\ \A c \in 1..Len(channels) :
             LET urls == {r.url : r \in {r \in keyed : r.key = chKey[c]}}
             IN  /\ Range(Urls(channels[c])) = urls
                 /\ Len(channels[c].sources) = Cardinality(urls)

\* the two playlists are retrieved: they hold records of one key with three
\* URLs, and a record whose key has one character
C11_Witness ==
  /\ ~ loadingData
  /\ Retrieved = <<[content |-> PlaylistM3U, category |-> PresetCategory(1)],
                   [content |-> PlaylistTXT, category |-> PresetCategory(2)]>>
  /\ \E c \in 1..Len(channels) :
       /\ KeyOf(channels[c].name) = Chars("CCTV-1")
       /\ Len(channels[c].sources) = 3
  /\ \E rec \in AllRecords(RecordsOf(Retrieved)) : Len(KeyOf(rec.name)) = 1

NoDuplicateUrl(chs) ==
  \A c \in 1..Len(chs) : \A j, k \in 1..Len(chs[c].sources) :
    j # k => chs[c].sources[j].url # chs[c].sources[k].url

RECURSIVE DuplicatesIgnored(_, _)
\* every record whose URL its channel already has leaves the map as it is
DuplicatesIgnored(channelMap, records) ==
  IF records = <<>> THEN TRUE
  ELSE \A next \in {addChannelToMap(channelMap, Head(records).name, Head(records).group,
                                    Head(records).url, Head(records).category)} :
         /\ \A k \in 1..Len(channelMap) :
              /\ channelMap[k].key = KeyOf(Head(records).name)
              /\ Head(records).url \in Range(Urls(channelMap[k].channel))
              => next = channelMap
         /\ DuplicatesIgnored(next, Tail(records))

\* C12: no channel ever has two sources with the same url, and a record whose
\* url its channel already has adds no source and leaves the existing source
\* as it is.
C12_NoDuplicateUrl ==
  /\ NoDuplicateUrl(channels)
  /\ ~ loadingData => DuplicatesIgnored(<<>>, ParsePlaylists(Retrieved))

\* the second playlist repeats a URL of the first for the same key: the
\* channel keeps the source of the first record at its place
C12_Witness ==
  /\ ~ loadingData
  /\ Retrieved = <<[content |-> PlaylistTXT, category |-> PresetCategory(1)],
                   [content |-> PlaylistM3U, category |-> PresetCategory(2)]>>
  /\ \E c \in 1..Len(channels) :
       /\ Urls(channels[c]) = <<Chars("http://a/3"), Chars("http://a/1"), Chars("http://a/2")>>
       /\ channels[c].sources[2].id = SourceId(1, 2)

\* the first record with the key, in document order and then line order
FirstRecord(records, playlists, key) ==
  LET has(d) == \E n \in 1..Len(records[d]) : KeyOf(records[d][n].name) = key
      d == CHOOSE d \in 1..Len(records) : has(d) /\ \A e \in 1..(d - 1) : ~ has(e)
      n == CHOOSE n \in 1..Len(records[d]) :
             /\ KeyOf(records[d][n].name) = key
             /\ \A m \in 1..(n - 1) : KeyOf(records[d][m].name) # key
  IN  [name |-> records[d][n].name, group |-> records[d][n].group,
       category |-> playlists[d].category]

\* C13: the name, the group and the category of a channel are those of the
\* first record with its canonical key, whatever the later records with the
\* key carry.
C13_FirstWriter ==
  ~ loadingData =>
    \A records \in {RecordsOf(Retrieved)} :
      \A c \in 1..Len(channels) :
        LET first == FirstRecord(records, Retrieved, KeyOf(channels[c].name))
        IN  /\ channels[c].name = Trim(first.name)
            /\ channels[c].group = (IF first.group = <<>> THEN Chars("Other") ELSE first.group)
            /\ channels[c].category = first.category

\* the second playlist has records of the key of a channel of the first, with
\* another name, group and category: they added a source and nothing else
C13_Witness ==
  /\ ~ loadingData
  /\ Retrieved = <<[content |-> PlaylistM3U, category |-> "China"],
                   [content |-> PlaylistTXT, category |-> "International"]>>
  /\ \E c \in 1..Len(channels) :
       /\ channels[c].name = Chars("CCTV1")
       /\ channels[c].group = Chars("News")
       /\ channels[c].category = "China"
       /\ Chars("http://a/3") \in Range(Urls(channels[c]))

\* the channels and, for each, its urls in order
Listing(chs) ==
  [c \in 1..Len(chs) |-> [name |-> chs[c].name, group |-> chs[c].group,
                          category |-> chs[c].category, urls |-> Urls(chs[c])]]

InsertAfter(seq, j, e) == SubSeq(seq, 1, j) \o <<e>> \o SubSeq(seq, j + 1, Len(seq))

Without(seq, j) == SubSeq(seq, 1, j - 1) \o SubSeq(seq, j + 1, Len(seq))

\* C14: a list in which a document appears a second time aggregates to the
\* same channels, with the same urls in the same order, as the list without
\* the second appearance.
C14_RepeatedDocument ==
  ~ loadingData =>
    /\ \A i \in 1..Len(Retrieved) : \A j \in i..Len(Retrieved) :
         Listing(parseAndAggregate(InsertAfter(Retrieved, j, Retrieved[i])))
           = Listing(channels)
    /\ \A i \in 1..Len(Retrieved) : \A j \in (i + 1)..Len(Retrieved) :
         Retrieved[i].content = Retrieved[j].content =>
           Listing(parseAndAggregate(Without(Retrieved, j))) = Listing(channels)

\* the catalog was aggregated from a list that holds one document twice
C14_Witness ==
  /\ ~ loadingData
  /\ Len(Retrieved) = 2
  /\ Retrieved[1].content = PlaylistM3U
  /\ Retrieved[2].content = PlaylistM3U
  /\ Len(channels) = 2

\* the first record with the key is an inline record, or comes from a
\* metadata line without group-title (the parser then records
\* 'Uncategorized') or with an empty group-title; no document of the model
\* names a group Other or Uncategorized in an attribute
CarriesNoGroup(first) ==
  first.group \in {<<>>, Chars("Other"), Chars("Uncategorized")}

\* C15: a channel whose first record carries no group has group "Other".
C15_DefaultGroup ==
  ~ loadingData =>
    \A records \in {RecordsOf(Retrieved)} :
      \A c \in 1..Len(channels) :
        CarriesNoGroup(FirstRecord(records, Retrieved, KeyOf(channels[c].name)))
          => channels[c].group = Chars("Other")

\* the name contains CCTV, in any letter case
HasCCTV(ch) == Includes(ToUpperCase(ch.name), Chars("CCTV"))

\* the name contains the satellite marker
HasSatellite(ch) == Includes(ch.name, <<"u536b", "u89c6">>)

Swap(seq, i, j) == [seq EXCEPT ![i] = seq[j], ![j] = seq[i]]

\* sorting the channels from another input order gives the same catalog
SameForEveryOrder(chs) ==
  \A i \in 1..Len(chs) : \A j \in i..Len(chs) : SortChannels(Swap(chs, i, j)) = chs

\* C17 as claimed: the CCTV channels come first, among the others the
\* satellite channels come first, and inside each of these three groups the
\* name comparison alone decides; the order of the input does not matter.
C17_ThreeGroups ==
  ~ loadingData =>
    /\ \A i \in 1..Len(channels) : \A j \in (i + 1)..Len(channels) :
         LET a == channels[i]
             b == channels[j]
         IN  /\ ~ (~ HasCCTV(a) /\ HasCCTV(b))
             /\ ~ HasCCTV(a) /\ ~ HasCCTV(b) => ~ (~ HasSatellite(a) /\ HasSatellite(b))
             /\ \/ HasCCTV(a) /\ HasCCTV(b)
                \/ ~ HasCCTV(a) /\ ~ HasCCTV(b) /\ HasSatellite(a) = HasSatellite(b)
                => localeCompare(a.name, b.name) <= 0
    /\ SameForEveryOrder(channels)

\* C17 as amended: the CCTV channels come first, among the CCTV channels and
\* among the others the satellite channels come first, and inside each of
\* these four groups the name comparison alone decides; the order of the
\* input does not matter.
C17_FourGroups ==
  ~ loadingData =>
    /\ \A i \in 1..Len(channels) : \A j \in (i + 1)..Len(channels) :
         LET a == channels[i]
             b == channels[j]
         IN  /\ ~ (~ HasCCTV(a) /\ HasCCTV(b))
             /\ HasCCTV(a) = HasCCTV(b) => ~ (~ HasSatellite(a) /\ HasSatellite(b))
             /\ HasCCTV(a) = HasCCTV(b) /\ HasSatellite(a) = HasSatellite(b)
                => localeCompare(a.name, b.name) < 0
    /\ SameForEveryOrder(channels)

\* a catalog with the four groups: a CCTV channel with the satellite marker
\* stands before a CCTV channel whose name compares lower
C17_Witness ==
  /\ ~ loadingData
  /\ Len(channels) >= 4
  /\ HasCCTV(channels[1]) /\ HasSatellite(channels[1])
  /\ HasCCTV(channels[2]) /\ ~ HasSatellite(channels[2])
  /\ localeCompare(channels[2].name, channels[1].name) < 0
  /\ \E c \in 1..Len(channels) : ~ HasCCTV(channels[c]) /\ HasSatellite(channels[c])
  /\ \E c \in 1..Len(channels) : ~ HasCCTV(channels[c]) /\ ~ HasSatellite(channels[c])

AllSettled == \A i \in 1..Len(promises) : promises[i].pc = "settled"

\* C19: the catalog built at startup is the aggregation of the playlists
\* whose retrieval succeeded, in configuration order, whatever the order in
\* which the retrievals completed, and loading finishes once every
\* retrieval has succeeded or failed.
C19_Startup ==
  /\ [](~ loadingData => channels = parseAndAggregate(Retrieved))
  /\ (AllSettled ~> ~ loadingData)

\* the second retrieval completed before the first, both succeeded, with
\* different playlists that share a channel
C19_Witness ==
  /\ ~ loadingData
  /\ promises[1].order > promises[2].order
  /\ promises[1].value # <<>> /\ promises[2].value # <<>>
  /\ remote[1] = PlaylistTXT /\ remote[2] = PlaylistM3U
  /\ \E c \in 1..Len(channels) : channels[c].name = Chars("cctv 1")

\* the lines of a playlist, trimmed as the line loop trims them
Lines(playlist) ==
  The({[k \in 1..Len(raw) |-> Trim(raw[k])] : raw \in {Split(playlist.content, "\n")}})

\* what a line does when nothing is pending
Alone(line, category) == ParseLine(NewLineState, line, category)

IsMetadata(line) == StartsWith(line, Chars("#EXTINF:"))

\* an inline name+URL line that is consumed: it emits a record of its own
IsConsumedInline(line, category) ==
  ~ IsMetadata(line) /\ Alone(line, category).call # <<>>

\* a line that is a URL and nothing else
IsBareUrl(line) ==
  /\ ~ Includes(line, <<",">>)
  /\ ~ StartsWith(line, <<"#">>)
  /\ StartsWith(line, Chars("http")) \/ StartsWith(line, Chars("rtmp"))

\* line k is a bare URL line, and what the line loop emitted at it
BareUrlLines(playlist) ==
  The({The({{[k |-> k, lines |-> lines, category |-> playlist.category,
              call |-> states[k].call] : k \in {k \in 1..Len(lines) : IsBareUrl(lines[k])}} :
    states \in {LineLoop(NewLineState, [k \in 1..Len(lines) |-> lines[k]], 1,
                         playlist.category)}}) :
    lines \in {Lines(playlist)}})

\* the record that carries the name and the group of metadata line m
Carries(b, m) ==
  b.call = <<[name |-> Alone(b.lines[m], b.category).currentName,
              group |-> Alone(b.lines[m], b.category).currentGroup,
              url |-> b.lines[b.k],
              category |-> b.category]>>

NoInlineBetween(b, m) ==
  \A n \in (m + 1)..(b.k - 1) : ~ IsConsumedInline(b.lines[n], b.category)

\* metadata line m has a name and no inline line was consumed after it
NamedBefore(b, m) ==
  /\ IsMetadata(b.lines[m])
  /\ Alone(b.lines[m], b.category).currentName # <<>>
  /\ NoInlineBetween(b, m)

\* metadata line m is the last metadata line before the bare URL line
LastMetadata(b, m) ==
  IsMetadata(b.lines[m]) /\ \A n \in (m + 1)..(b.k - 1) : ~ IsMetadata(b.lines[n])

\* C20 as stated: a bare URL line emits a record exactly when some earlier
\* metadata line of the document has a non-empty name and no inline line
\* was consumed after it, and the record carries the name and group of such
\* a line.
C20_PendingName ==
  ~ loadingData =>
    \A d \in 1..Len(Retrieved) : \A b \in BareUrlLines(Retrieved[d]) :
      /\ b.call # <<>> <=> \E m \in 1..(b.k - 1) : NamedBefore(b, m)
      /\ b.call # <<>> => \E m \in 1..(b.k - 1) : NamedBefore(b, m) /\ Carries(b, m)

\* C20: a bare URL line emits a record exactly when the last metadata line
\* before it in the same document has a non-empty name and no inline
\* name+URL line was consumed after that metadata line; the record carries
\* the name and the group of that metadata line; nothing is pending at the
\* start of a document.
C20_LastMetadataName ==
  ~ loadingData =>
    \A d \in 1..Len(Retrieved) : \A b \in BareUrlLines(Retrieved[d]) :
      /\ b.call # <<>> <=>
           \E m \in 1..(b.k - 1) : LastMetadata(b, m) /\ NamedBefore(b, m)
      /\ b.call # <<>> =>
           \E m \in 1..(b.k - 1) : LastMetadata(b, m) /\ Carries(b, m)

\* a document that ends with a name pending is followed by a document that
\* starts with a bare URL line; the first has a bare URL line after a
\* metadata line without a name; one URL line of it emitted a record and
\* the URL lines without a pending name emitted none
C20_Witness ==
  /\ ~ loadingData
  /\ Len(Retrieved) = 2
  /\ Retrieved[1].content = PlaylistMixed /\ Retrieved[2].content = PlaylistTXT
  /\ \E c \in 1..Len(channels) : Chars("http://b/1") \in Range(Urls(channels[c]))
  /\ \A c \in 1..Len(channels) :
       /\ Chars("http://o/1") \notin Range(Urls(channels[c]))
       /\ Chars("http://o/2") \notin Range(Urls(channels[c]))

\* the bare URL lines that follow metadata line m with no other metadata
\* line and no consumed inline line between
UrlLinesAfter(lines, m, category) ==
  {k \in (m + 1)..Len(lines) :
     /\ IsBareUrl(lines[k])
     /\ \A n \in (m + 1)..(k - 1) :
          ~ IsMetadata(lines[n]) /\ ~ IsConsumedInline(lines[n], category)}

\* the metadata lines of a playlist whose name has a usable key, each with
\* its name and the bare URL lines that follow it
NamedMetadata(playlist) ==
  The({{[name |-> Alone(lines[m], playlist.category).currentName,
         after |-> UrlLinesAfter(lines, m, playlist.category),
         lines |-> lines, category |-> playlist.category] :
          m \in {m \in 1..Len(lines) :
                   /\ IsMetadata(lines[m])
                   /\ ~ KeyRejected(KeyOf(Alone(lines[m], playlist.category).currentName))}} :
    lines \in {Lines(playlist)}})

\* C21: a bare URL line does not clear the pending name and group: each of
\* the bare URL lines that follow a metadata line, with no other metadata or
\* inline line between, emits a record with the name of the metadata line,
\* and the channel of that name has a source for each of their urls, k
\* sources for k distinct urls.
C21_PendingKept ==
  ~ loadingData =>
    \A d \in 1..Len(Retrieved) : \A md \in NamedMetadata(Retrieved[d]) :
      /\ \A b \in BareUrlLines(Retrieved[d]) :
           b.k \in md.after => b.call # <<>> /\ b.call[1].name = md.name
      /\ \E c \in 1..Len(channels) :
           /\ KeyOf(channels[c].name) = KeyOf(md.name)
           /\ Cardinality({n \in 1..Len(channels[c].sources) :
                             \E k \in md.after : channels[c].sources[n].url = md.lines[k]})
                = Cardinality({md.lines[k] : k \in md.after})

\* the playlist with a metadata line followed by two bare URL lines is
\* retrieved alone: the channel of the metadata line has the two sources
C21_Witness ==
  /\ ~ loadingData
  /\ Len(Retrieved) = 1
  /\ Retrieved[1].content = PlaylistM3U
  /\ \E c \in 1..Len(channels) :
       /\ channels[c].name = Chars("CCTV1")
       /\ Urls(channels[c]) = <<Chars("http://a/1"), Chars("http://a/2")>>

----------------------------------------------------------------------------
(* Properties of the check cycle, continued *)

\* the sources that are being checked before the step and have a result
\* after it
ResultsWritten(before, after) ==
  {<<c, k>> \in UNION {{<<c, k>> : k \in 1..Len(before[c].sources)} : c \in 1..Len(before)} :
     /\ before[c].sources[k].status = "checking"
     /\ \E n \in 1..Len(after[c].sources) :
          /\ after[c].sources[n].id = before[c].sources[k].id
          /\ after[c].sources[n].status # "checking"}

\* C18: the results of a batch are written into the catalog in the same step
\* in which the checked count and the progress advance for the batch: no
\* state has the ones without the others.
C18_BatchAtomic ==
  [][cycles' = cycles =>
       LET written == ResultsWritten(channels, channels')
       IN  /\ Cardinality(written) = checkedCount' - checkedCount
           /\ written # {} => checkProgress' = Progress(checkedCount', totalToCheck')
           /\ written = {} => checkProgress' = checkProgress]_vars

\* a batch has completed and the cycle goes on with the next batch
C18_Witness ==
  /\ isChecking
  /\ checkedCount > 0
  /\ checkedCount < totalToCheck
  /\ checkProgress = Progress(checkedCount, totalToCheck)

\* the tasks of run r from position i + 1 on, at most BATCH_SIZE of them
BatchAt(run) ==
  SubSeq(run.tasks, run.i + 1,
         IF run.i + BATCH_SIZE < Len(run.tasks) THEN run.i + BATCH_SIZE ELSE Len(run.tasks))

----------------------------------------------------------------------------
(* Properties of one batch *)

\* the position of the source in the channel's list before the write-back
PrevPosition(c, s) == SourceIndex(batchPrev[c].sources, s.id)

\* C24: re-ranking is stable: two sources of a channel that have the same
\* score after a write-back are in the relative order they had before it.
C24_StableRanking ==
  (batchResults # <<>> /\ ~ isChecking) =>
    \A c \in 1..Len(channels) : \A j, k \in 1..Len(channels[c].sources) :
      (j < k /\ ClaimScore(channels[c].sources[j]) = ClaimScore(channels[c].sources[k]))
        => PrevPosition(c, channels[c].sources[j]) < PrevPosition(c, channels[c].sources[k])

\* the label of the claim for a maximum height h
ClaimLabel(h) ==
  IF h >= 1080 THEN "1080P" ELSE IF h >= 720 THEN "720P" ELSE ToString(h) \o "P"

\* C25: the result of a successful probe whose first chunk holds markers has
\* the label of the largest height of the markers: 1080P from 1080 on, 720P
\* from 720 to 1079, the height followed by P below; without a marker the
\* result has no resolution.
C25_LabelOfMaxHeight ==
  \A k \in 1..Len(batchResults) :
    (batchOutcomes[k].response = "ok" /\ batchOutcomes[k].sniff = "chunk") =>
      IF batchOutcomes[k].heights = {}
      THEN batchResults[k].resolution = UNDEFINED
      ELSE \E h \in batchOutcomes[k].heights :
             /\ \A g \in batchOutcomes[k].heights : g <= h
             /\ batchResults[k].resolution = ClaimLabel(h)

\* a chunk with markers of 480 and 720 lines has given the label 720P, one
\* with a marker of 719 lines 719P and one without marker no label
C25_Witness ==
  /\ \E k \in 1..Len(batchResults) :
       batchOutcomes[k].heights = {480, 720} /\ batchResults[k].resolution = "720P"
  /\ \E k \in 1..Len(batchResults) :
       \/ batchOutcomes[k].heights = {719} /\ batchResults[k].resolution = "719P"
       \/ batchOutcomes[k].sniff = "chunk" /\ batchOutcomes[k].heights = {}
          /\ batchResults[k].resolution = UNDEFINED

----------------------------------------------------------------------------
(* Properties of a completed cycle *)

Final == {"online", "offline", "error"}

\* C26: when a check cycle has completed, every source the cycle targeted has
\* the status online, offline or error of its own probe's result, and no
\* source of the catalog is checking: no source is checking while the flag
\* is clear, every continuation of a batch writes the status of each probe's
\* result to the probe's source and leaves the statuses written by earlier
\* batches of the cycle as they are.
C26_CycleOutcome ==
  /\ [](~ isChecking =>
          \A c \in 1..Len(channels) : \A n \in 1..Len(channels[c].sources) :
            channels[c].sources[n].status # "checking")
  /\ [][\A r \in 1..Len(runs) :
          (runs' # runs /\ \A p \in 1..Len(runs[r].probes) : runs[r].probes[p].pc = "done") =>
            /\ \A p \in 1..Len(runs[r].probes) :
                 /\ runs[r].probes[p].result[1].status \in Final
                 /\ SourceOf(channels', runs[r].probes[p].task).status
                      = runs[r].probes[p].result[1].status
            /\ \A k \in 1..runs[r].i :
                 /\ SourceOf(channels, runs[r].tasks[k]).status \in Final
                 /\ SourceOf(channels', runs[r].tasks[k]).status
                      = SourceOf(channels, runs[r].tasks[k]).status
            /\ ~ isChecking' =>
                 \A k \in 1..Len(runs[r].tasks) :
                   SourceOf(channels', runs[r].tasks[k]).status \in Final]_vars

\* the first cycle has completed: the source it targeted has the status error
\* and the source of the other channel is idle
C26_Witness ==
  /\ ~ isChecking
  /\ cycles = 1
  /\ runs = <<>>
  /\ Len(channels) >= 2
  /\ channels[1].sources[1].status = "error"
  /\ channels[2].sources[1].status = "idle"

\* C27: every channel of the catalog has at least one source, so every
\* non-empty target list (one channel, or the channels of a tab) gives a
\* non-empty task list, every accepted cycle has tasks, and the denominator
\* of the progress computation is never zero.
C27_NonEmptySources ==
  /\ \A c \in 1..Len(channels) : Len(channels[c].sources) >= 1
  /\ \A c \in 1..Len(channels) : FlattenTasks(<<channels[c]>>) # <<>>
  /\ \A tab \in Tabs :
       filteredChannels(tab) # <<>> => FlattenTasks(filteredChannels(tab)) # <<>>
  /\ \A r \in 1..Len(runs) : Len(runs[r].tasks) >= 1
  /\ isChecking => totalToCheck >= 1
  /\ checkProgress.den >= 1

\* the first batch of a cycle over a channel with two sources is written and
\* the progress has been computed with the length of the task list
C27_Witness ==
  /\ Len(channels) = 1
  /\ Len(channels[1].sources) = 2
  /\ totalToCheck = 2
  /\ checkProgress.num >= 1
  /\ checkProgress.den = 2

====
